---- MODULE Spec2Model ----
(***************************************************************************)
(* The real-time telemetry client of the Digital Twin dashboard:           *)
(* WebSocketService (src/api.js) and the Dashboard effect that drives it   *)
(* (src/unnamed/part_002); then the interceptors of the HTTP client        *)
(* (src/api.js), the asset handlers of App (src/App.jsx) and               *)
(* calculateHealthScore (src/utils.js).  One step of the model is one      *)
(* JavaScript task: an application call, a transport signal handler, a     *)
(* timer callback or an interceptor, each run to completion on the single  *)
(* event loop.                                                             *)
(***************************************************************************)
EXTENDS Integers, Sequences, FiniteSets, Bags, TLC

(***************************************************************************)
(* Bounds of the model.                                                    *)
(***************************************************************************)
\* Spec: WebSocket objects constructed during one run.
MaxSockets == 2
\* SpecChain: WebSocket objects constructed during one run (deep enough for
\* six consecutive closes).
ChainSockets == 6
\* Spec: registrations the application holds in the registry at the same time.
MaxRegs == 1
\* SpecExhaust: WebSocket objects constructed during one run (deep enough
\* for a close after the retries were exhausted).
ExhaustSockets == 7
\* SpecHealth: readings in the array handed to calculateHealthScore (one
\* more than the ten it looks at).
MaxReadings == 11
\* SpecAssets: assets App holds at the same time.
MaxAssets == 3
\* SpecClient: HTTP requests sent and not yet answered.
MaxRequests == 2
\* Registrations the application makes in the registry specification.
MaxSubs == 3

(***************************************************************************)
(* Program constants.                                                      *)
(***************************************************************************)
maxReconnectAttempts == 5
reconnectDelay == 1000

null == 0

\* WebSocket.readyState
ReadyStates == {"CONNECTING", "OPEN", "CLOSING", "CLOSED"}

\* Event names the service emits by itself, and the type the Dashboard
\* subscribes to.
SyntheticEvents == {"connected", "disconnected", "error", "message",
                    "maxReconnectAttemptsReached"}
Events == SyntheticEvents \cup {"telemetry"}

\* Tokens something outside this code stores under 'auth_token', and the
\* HTTP status of a response (0: no response at all, a network error).
Tokens == {"t1", "t2"}
Statuses == {0, 200, 401, 403, 500}

\* The asset objects the pages hand to the handlers of App: an id and the
\* rest of the fields, here a name.
AssetIds == {1, 2}
AssetNames == {"pump", "fan"}
Assets == [id : AssetIds, name : AssetNames]

\* Telemetry readings (whole numbers): nominal, cold, at 0 degrees, below 0,
\* hot and vibrating with a warning, and everything wrong at once.
Reading(temperature, vibration, power_consumption, status) ==
    [temperature |-> temperature, vibration |-> vibration,
     power_consumption |-> power_consumption, status |-> status]
Readings ==
    {Reading(22, 1, 20, "normal"), Reading(10, 1, 20, "normal"),
     Reading(0, 1, 20, "normal"), Reading(-5, 0, 25, "normal"),
     Reading(35, 2, 25, "warning"), Reading(31, 2, 26, "error")}

\* Callbacks the application registers by hand (function identities).
AppCallbacks == {1}
\* Callbacks that raise an exception when invoked.
ThrowingCallbacks == {2}
\* Callbacks written to run once: they call off(event, themselves).
OnceCallbacks == {3}
\* Callbacks, events and frames of the registry specification.
RegistryCallbacks == AppCallbacks \cup ThrowingCallbacks
RegistryEvents == {"message", "telemetry"}
RegistryFrames ==
    {"{type:telemetry,data:t1}", "{type:alert,data:{severity:high}}",
     "{data:{severity:high}, type:alert}", "{type:message,data:m1}",
     "{type:,data:d0}", "{value:1}", "null", "not json"}
\* Callbacks, events and frames of the inbound specification.
InboundCallbacks == AppCallbacks \cup OnceCallbacks
InboundEvents == {"message", "connected"}
InboundFrames == {"{value:1}", "{type:connected,data:c1}", "not json"}
\* The closure handleRealtimeUpdate of the render whose effect ran as run n.
HandlerOf(n) == 100 + n

\* Payloads handed to send(); "circular" is an object JSON.stringify rejects.
Payloads == {"ping", "circular"}

\* Raw frames a transport delivers, as text.
Frames == {"{type:telemetry,data:t1}", "{value:1}", "not json"}

VARIABLES
    ws,                 \* this.ws: null or the WebSocket object (its id)
    sockets,            \* readyState of every WebSocket constructed so far
    reconnectAttempts,  \* this.reconnectAttempts
    timers,             \* pending setTimeout callbacks (a bag)
    listeners,          \* this.listeners: event name -> array of callbacks
    effect,             \* Dashboard: 0 unmounted, else the run of its live effect
    effectRuns,         \* Dashboard: effect runs so far
    trace,              \* what the task that ran last did, in order
    closes,             \* history: involuntary close signals since the last open
                        \* signal, and whether a voluntary one came among them
    table,              \* history: the documented transition table, folded
    localStorage,       \* HTTP client: the items of window.localStorage
    requests,           \* HTTP client: requests sent and not yet answered (a bag)
    assets,             \* App: the state assets
    selectedAsset,      \* App: the state selectedAsset (<<>> for null)
    telemetryData       \* utils: the argument of calculateHealthScore

\* The variables of the service and of the Dashboard, of the HTTP client, of
\* App and of the health score.
serviceVars == <<ws, sockets, reconnectAttempts, timers, listeners, effect,
                 effectRuns, closes, table>>
clientVars == <<localStorage, requests>>
appVars == <<assets, selectedAsset>>

vars == <<ws, sockets, reconnectAttempts, timers, listeners, effect,
          effectRuns, trace, closes, table, localStorage, requests, assets,
          selectedAsset, telemetryData>>

\* localStorage with no item: a function from the keys it holds.
NoItems == [key \in {} |-> ""]

\* The argument of calculateHealthScore: null, or an array of readings.
NullData == [isNull |-> TRUE, readings |-> <<>>]
Array(readings) == [isNull |-> FALSE, readings |-> readings]

(***************************************************************************)
(* The effects of one task.  Every entry has the same fields: op, the      *)
(* event name, a number (socket id or delay), a callback and a datum.      *)
(***************************************************************************)
Ev(op, name, num, cb, data) ==
    [op |-> op, name |-> name, num |-> num, cb |-> cb, data |-> data]

\* The mutable fields of the service, threaded through one task.
Service ==
    [ws |-> ws, sockets |-> sockets, reconnectAttempts |-> reconnectAttempts,
     timers |-> timers, listeners |-> listeners, trace |-> <<>>]

Commit(s) ==
    /\ ws' = s.ws
    /\ sockets' = s.sockets
    /\ reconnectAttempts' = s.reconnectAttempts
    /\ timers' = s.timers
    /\ listeners' = s.listeners
    /\ trace' = s.trace

Do(s, e) == [s EXCEPT !.trace = Append(@, e)]

Live(socks) == {i \in 1..Len(socks) : socks[i] # "CLOSED"}
Active(socks) == {i \in 1..Len(socks) : socks[i] \in {"CONNECTING", "OPEN"}}

\* A pending timer: its delay and, as history, the kind of close signal that
\* set it ("" until the task that set it ends) and whether disconnect() was
\* called while it was pending.
Timer(delay, origin, stale) ==
    [delay |-> delay, origin |-> origin, stale |-> stale]

(***************************************************************************)
(* WebSocketService                                                        *)
(***************************************************************************)
\* on(event, callback) with unshift for push.
OnUnshift(s, event, callback) ==
    [s EXCEPT !.listeners[event] = <<callback>> \o @]

\* on(event, callback)
On(s, event, callback) ==
    [s EXCEPT !.listeners[event] = Append(@, callback)]

\* Array.prototype.indexOf: the first index holding x, 0 when there is none.
IndexOf(seq, x) ==
    IF \E i \in 1..Len(seq) : seq[i] = x
    THEN CHOOSE i \in 1..Len(seq) :
             seq[i] = x /\ \A j \in 1..(i - 1) : seq[j] # x
    ELSE 0

\* Array.prototype.splice(index, 1)
Splice(seq, index) ==
    [i \in 1..(Len(seq) - 1) |-> IF i < index THEN seq[i] ELSE seq[i + 1]]

\* Array.prototype.lastIndexOf: the last index holding x, 0 when there is none.
LastIndexOf(seq, x) ==
    IF \E i \in 1..Len(seq) : seq[i] = x
    THEN CHOOSE i \in 1..Len(seq) :
             seq[i] = x /\ \A j \in (i + 1)..Len(seq) : seq[j] # x
    ELSE 0

\* off(event, callback) with lastIndexOf for indexOf.
OffLast(s, event, callback) ==
    LET index == LastIndexOf(s.listeners[event], callback)
    IN  IF index > 0
        THEN [s EXCEPT !.listeners[event] = Splice(@, index)]
        ELSE s

\* off(event, callback)
Off(s, event, callback) ==
    LET index == IndexOf(s.listeners[event], callback)
    IN  IF index > 0
        THEN [s EXCEPT !.listeners[event] = Splice(@, index)]
        ELSE s

\* callback(data) raises an exception.
Throws(callback) == callback \in ThrowingCallbacks

\* The callbacks emit iterates over: none unless listeners.has(event).
Subscribers(s, event) ==
    IF event \in DOMAIN s.listeners THEN s.listeners[event] ELSE <<>>

\* emit(event, data) without the try/catch around callback(data): the first
\* exception ends the forEach and leaves emit.
RECURSIVE ForEachUncaught(_, _, _, _)
ForEachUncaught(callbacks, i, event, data) ==
    IF i > Len(callbacks) THEN <<>>
    ELSE IF Throws(callbacks[i])
         THEN <<Ev("call", event, 0, callbacks[i], data),
                Ev("throw", event, 0, callbacks[i], "Error")>>
         ELSE <<Ev("call", event, 0, callbacks[i], data)>>
                  \o ForEachUncaught(callbacks, i + 1, event, data)

EmitUncaught(s, event, data) ==
    [s EXCEPT !.trace = (@ \o <<Ev("emit", event, 0, 0, data)>>)
                            \o ForEachUncaught(Subscribers(s, event), 1, event, data)]

\* callback(data) inside the try of emit: a callback that raises has its
\* exception caught and logged; a callback written to run once calls
\* off(event, itself); the others do nothing to the service.
Invoke(s, event, callback, data) ==
    LET called == Do(s, Ev("call", event, 0, callback, data))
    IN  IF Throws(callback)
        THEN Do(called, Ev("console.error", event, 0, callback,
                           "Error in WebSocket event callback:"))
        ELSE IF callback \in OnceCallbacks
             THEN Off(called, event, callback)
             ELSE called

\* Array.prototype.forEach from index i on: the indices are those of the
\* array as it was when forEach was called (len), read from the array as it
\* is now; an index the array no longer has is passed over.
RECURSIVE ForEach(_, _, _, _, _)
ForEach(s, i, len, event, data) ==
    IF i > len THEN s
    ELSE IF i > Len(Subscribers(s, event))
         THEN ForEach(s, i + 1, len, event, data)
         ELSE ForEach(Invoke(s, event, Subscribers(s, event)[i], data),
                      i + 1, len, event, data)

\* emit(event, data)
Emit(s, event, data) ==
    ForEach(Do(s, Ev("emit", event, 0, 0, data)), 1,
            Len(Subscribers(s, event)), event, data)

\* attemptReconnect() with the delay computed from the counter before the
\* increment.
AttemptReconnectDelayFirst(s) ==
    IF s.reconnectAttempts < maxReconnectAttempts
    THEN LET d == reconnectDelay * s.reconnectAttempts
         IN  Do([s EXCEPT !.reconnectAttempts = @ + 1,
                          !.timers = @ (+) SetToBag({Timer(d, "", FALSE)})],
                Ev("setTimeout", "", d, 0, ""))
    ELSE Emit(s, "maxReconnectAttemptsReached", "undefined")

\* attemptReconnect() with <= for <.
AttemptReconnectOffByOne(s) ==
    IF s.reconnectAttempts <= maxReconnectAttempts
    THEN LET n == s.reconnectAttempts + 1
             d == reconnectDelay * n
         IN  Do([s EXCEPT !.reconnectAttempts = n,
                          !.timers = @ (+) SetToBag({Timer(d, "", FALSE)})],
                Ev("setTimeout", "", d, 0, ""))
    ELSE Emit(s, "maxReconnectAttemptsReached", "undefined")

\* attemptReconnect() that gives up without emitting anything.
AttemptReconnectSilent(s) ==
    IF s.reconnectAttempts < maxReconnectAttempts
    THEN LET n == s.reconnectAttempts + 1
             d == reconnectDelay * n
         IN  Do([s EXCEPT !.reconnectAttempts = n,
                          !.timers = @ (+) SetToBag({Timer(d, "", FALSE)})],
                Ev("setTimeout", "", d, 0, ""))
    ELSE s

\* attemptReconnect()
AttemptReconnect(s) ==
    IF s.reconnectAttempts < maxReconnectAttempts
    THEN LET n == s.reconnectAttempts + 1
             d == reconnectDelay * n
         IN  Do([s EXCEPT !.reconnectAttempts = n,
                          !.timers = @ (+) SetToBag({Timer(d, "", FALSE)})],
                Ev("setTimeout", "", d, 0, ""))
    ELSE Emit(s, "maxReconnectAttemptsReached", "undefined")

\* connect() that also starts from an empty registry.
ConnectFresh(s) ==
    LET id == Len(s.sockets) + 1
    IN  Do([s EXCEPT !.sockets = Append(@, "CONNECTING"), !.ws = id,
                     !.listeners = [e \in DOMAIN @ |-> <<>>]],
           Ev("new WebSocket", "", id, 0, ""))

\* connect() that also resets the retry counter.
ConnectResetsCounter(s) ==
    LET id == Len(s.sockets) + 1
    IN  Do([s EXCEPT !.sockets = Append(@, "CONNECTING"), !.ws = id,
                     !.reconnectAttempts = 0],
           Ev("new WebSocket", "", id, 0, ""))

\* connect(): new WebSocket(wsUrl), assigned to this.ws, handlers attached.
Connect(s) ==
    LET id == Len(s.sockets) + 1
    IN  Do([s EXCEPT !.sockets = Append(@, "CONNECTING"), !.ws = id],
           Ev("new WebSocket", "", id, 0, ""))

\* connect() when new WebSocket(wsUrl) raises an exception: the catch of
\* connect logs it; this.ws is not assigned and no handler is attached.
ConnectThrows(s) ==
    Do(s, Ev("console.error", "", 0, 0, "Failed to create WebSocket connection:"))

\* WebSocket.close(): CONNECTING and OPEN become CLOSING, the close signal
\* follows in a later task; no effect on CLOSING and CLOSED.
SocketClose(socks, id) ==
    IF socks[id] \in {"CONNECTING", "OPEN"}
    THEN [socks EXCEPT ![id] = "CLOSING"]
    ELSE socks

\* disconnect() without the test of this.ws: null.close() raises a TypeError.
DisconnectUnguarded(s) ==
    IF s.ws # null
    THEN Do([s EXCEPT !.sockets = SocketClose(@, s.ws), !.ws = null],
            Ev("close", "", s.ws, 0, ""))
    ELSE Do(s, Ev("throw", "", 0, 0, "TypeError"))

\* disconnect()
Disconnect(s) ==
    IF s.ws # null
    THEN Do([s EXCEPT !.sockets = SocketClose(@, s.ws), !.ws = null],
            Ev("close", "", s.ws, 0, ""))
    ELSE s

\* ws.onopen without the reset of the counter.
OnOpenNoReset(s) ==
    Emit(s, "connected", "undefined")

\* ws.onopen; the entry for the assignment holds the value it overwrites.
OnOpen(s) ==
    Emit(Do([s EXCEPT !.reconnectAttempts = 0],
            Ev("reconnectAttempts = 0", "", s.reconnectAttempts, 0, "")),
         "connected", "undefined")

\* ws.onclose with the two statements swapped.
OnCloseReconnectFirst(s) ==
    Emit(AttemptReconnect(s), "disconnected", "undefined")

\* ws.onclose
OnClose(s) ==
    AttemptReconnect(Emit(s, "disconnected", "undefined"))

\* ws.onerror with a reconnect scheduled by the error signal itself.
OnErrorReconnect(s, error) ==
    AttemptReconnect(Emit(s, "error", error))

\* ws.onerror
OnError(s, error) ==
    Emit(s, "error", error)

\* JSON.parse of the frames the model delivers: whether it succeeds, the
\* decoded value, whether the value is null (reading a property of it raises
\* a TypeError), whether it has a type field, and its type and data fields
\* ("undefined" for the data field when it is absent).
Parsed(value, isNull, hasType, type, data) ==
    [ok |-> TRUE, value |-> value, isNull |-> isNull, hasType |-> hasType,
     type |-> type, data |-> data]

JSONParse(raw) ==
    CASE raw = "{type:telemetry,data:t1}" ->
             Parsed("Object(type=telemetry,data=t1)", FALSE, TRUE, "telemetry", "t1")
      [] raw = "{type:alert,data:{severity:high}}" ->
             Parsed("Object(type=alert,data=Object(severity=high))", FALSE, TRUE,
                    "alert", "Object(severity=high)")
      [] raw = "{data:{severity:high}, type:alert}" ->
             Parsed("Object(data=Object(severity=high),type=alert)", FALSE, TRUE,
                    "alert", "Object(severity=high)")
      [] raw = "{type:message,data:m1}" ->
             Parsed("Object(type=message,data=m1)", FALSE, TRUE, "message", "m1")
      [] raw = "{type:connected,data:c1}" ->
             Parsed("Object(type=connected,data=c1)", FALSE, TRUE, "connected", "c1")
      [] raw = "{type:,data:d0}" ->
             Parsed("Object(type=,data=d0)", FALSE, TRUE, "", "d0")
      [] raw = "{value:1}" ->
             Parsed("Object(value=1)", FALSE, FALSE, "", "undefined")
      [] raw = "null" ->
             Parsed("null", TRUE, FALSE, "", "undefined")
      [] OTHER ->
             [ok |-> FALSE, value |-> "SyntaxError", isNull |-> FALSE,
              hasType |-> FALSE, type |-> "", data |-> "undefined"]

\* if (data.type): the empty string is falsy, as is the undefined of an
\* absent field.
Truthy(type) == type # ""

\* ws.onmessage with an 'error' event emitted for a frame that fails to parse.
OnMessageErrorEvent(s, raw) ==
    LET parsed == JSONParse(raw)
        logged == Ev("console.error", "", 0, 0, "Failed to parse WebSocket message:")
    IN  IF parsed.ok
        THEN LET s1 == Emit(s, "message", parsed.value)
             IN  IF parsed.isNull
                 THEN Do(s1, logged)
                 ELSE IF Truthy(parsed.type)
                      THEN Emit(s1, parsed.type, parsed.data)
                      ELSE s1
        ELSE Emit(Do(s, logged), "error", parsed.value)

\* ws.onmessage with the event of the type emitted before 'message'.
OnMessageTypeFirst(s, raw) ==
    LET parsed == JSONParse(raw)
        logged == Ev("console.error", "", 0, 0, "Failed to parse WebSocket message:")
    IN  IF parsed.ok
        THEN IF parsed.isNull
             THEN Do(Emit(s, "message", parsed.value), logged)
             ELSE IF Truthy(parsed.type)
                  THEN Emit(Emit(s, parsed.type, parsed.data), "message", parsed.value)
                  ELSE Emit(s, "message", parsed.value)
        ELSE Do(s, logged)

\* ws.onmessage with the whole payload passed to the event of the type.
OnMessageWholePayload(s, raw) ==
    LET parsed == JSONParse(raw)
        logged == Ev("console.error", "", 0, 0, "Failed to parse WebSocket message:")
    IN  IF parsed.ok
        THEN LET s1 == Emit(s, "message", parsed.value)
             IN  IF parsed.isNull
                 THEN Do(s1, logged)
                 ELSE IF Truthy(parsed.type)
                      THEN Emit(s1, parsed.type, parsed.value)
                      ELSE s1
        ELSE Do(s, logged)

\* ws.onmessage: JSON.parse raises a SyntaxError on a malformed frame and
\* data.type a TypeError on null; the catch logs either.
OnMessage(s, raw) ==
    LET parsed == JSONParse(raw)
    IN  IF parsed.ok
        THEN LET s1 == Emit(s, "message", parsed.value)
             IN  IF parsed.isNull
                 THEN Do(s1, Ev("console.error", "", 0, 0,
                                "Failed to parse WebSocket message:"))
                 ELSE IF Truthy(parsed.type)
                      THEN Emit(s1, parsed.type, parsed.data)
                      ELSE s1
        ELSE Do(s, Ev("console.error", "", 0, 0, "Failed to parse WebSocket message:"))

\* JSON.stringify throws a TypeError on a circular structure.
Serializable(data) == data # "circular"

\* JSON.stringify of the payloads the model sends.
JSONStringify(data) ==
    CASE data = "ping" -> "'ping'"
      [] OTHER -> "TypeError"

\* send(data) without the readyState test.
SendUnguarded(s, data) ==
    IF s.ws # null
    THEN IF Serializable(data)
         THEN Do(s, Ev("transmit", "", s.ws, 0, JSONStringify(data)))
         ELSE Do(s, Ev("throw", "", s.ws, 0, "TypeError"))
    ELSE Do(s, Ev("console.warn", "", 0, 0, ""))

\* send(data)
Send(s, data) ==
    IF s.ws # null /\ s.sockets[s.ws] = "OPEN"
    THEN IF Serializable(data)
         THEN Do(s, Ev("transmit", "", s.ws, 0, JSONStringify(data)))
         ELSE Do(s, Ev("throw", "", s.ws, 0, "TypeError"))
    ELSE Do(s, Ev("console.warn", "", 0, 0, ""))

(***************************************************************************)
(* The HTTP client (axios instance and its interceptors)                   *)
(***************************************************************************)
\* localStorage.getItem(key): <<>> for null, else the item in a tuple.
GetItem(storage, key) ==
    IF key \in DOMAIN storage THEN <<storage[key]>> ELSE <<>>

\* localStorage.setItem(key, value) and localStorage.removeItem(key)
SetItem(storage, key, value) ==
    [k \in DOMAIN storage \cup {key} |-> IF k = key THEN value ELSE storage[k]]
RemoveItem(storage, key) ==
    [k \in DOMAIN storage \ {key} |-> storage[k]]

\* The template literal `Bearer ${token}`.
Bearer(token) ==
    CASE token = "t1" -> "Bearer t1"
      [] token = "t2" -> "Bearer t2"
      [] OTHER -> "Bearer "

\* The request interceptor: the headers of the request as it is sent
\* ("undefined" for a header that is not set).
RequestInterceptor(storage) ==
    LET token == GetItem(storage, "auth_token")
    IN  IF token # <<>> /\ token[1] # ""
        THEN [Authorization |-> Bearer(token[1])]
        ELSE [Authorization |-> "undefined"]

\* axios settles a response with a 2xx status through the first function of
\* the response interceptor and everything else through the second.
Fulfilled(status) == status >= 200 /\ status < 300

\* The response interceptor with the token removed on every error.
ResponseInterceptorAnyError(storage, status) ==
    IF Fulfilled(status)
    THEN [storage |-> storage, settled |-> "resolved", log |-> <<>>]
    ELSE [storage |-> RemoveItem(storage, "auth_token"), settled |-> "rejected",
          log |-> <<Ev("console.error", "", status, 0, "API Error:"),
                    Ev("removeItem", "auth_token", status, 0, "")>>]

\* The response interceptor: localStorage as it leaves it, how the promise
\* of the caller settles, and what it did.
ResponseInterceptor(storage, status) ==
    IF Fulfilled(status)
    THEN [storage |-> storage, settled |-> "resolved", log |-> <<>>]
    ELSE IF status = 401
         THEN [storage |-> RemoveItem(storage, "auth_token"),
               settled |-> "rejected",
               log |-> <<Ev("console.error", "", status, 0, "API Error:"),
                         Ev("removeItem", "auth_token", status, 0, "")>>]
         ELSE [storage |-> storage, settled |-> "rejected",
               log |-> <<Ev("console.error", "", status, 0, "API Error:")>>]

(***************************************************************************)
(* App: the handlers of the asset list.  The state is threaded through the *)
(* handler as a record: assets, selectedAsset and what the handler did.    *)
(***************************************************************************)
App == [assets |-> assets, selectedAsset |-> selectedAsset, trace |-> <<>>]

\* handleAssetSelect(asset)
HandleAssetSelect(app, asset) ==
    [app EXCEPT !.selectedAsset = <<asset>>,
                !.trace = Append(@, Ev("setSelectedAsset", "", asset.id, 0, asset.name))]

\* handleAssetUpdate(updatedAsset)
HandleAssetUpdate(app, updatedAsset) ==
    LET mapped == [i \in DOMAIN app.assets |->
                      IF app.assets[i].id = updatedAsset.id
                      THEN updatedAsset
                      ELSE app.assets[i]]
        app1 == [app EXCEPT !.assets = mapped]
    IN  IF app.selectedAsset # <<>> /\ app.selectedAsset[1].id = updatedAsset.id
        THEN [app1 EXCEPT !.selectedAsset = <<updatedAsset>>,
                          !.trace = Append(@, Ev("setSelectedAsset", "", updatedAsset.id, 0,
                                                 updatedAsset.name))]
        ELSE app1

\* handleAssetCreate(newAsset)
HandleAssetCreate(app, newAsset) ==
    [app EXCEPT !.assets = Append(@, newAsset)]

\* Array.prototype.filter with asset => asset.id !== assetId
RECURSIVE FilterOut(_, _)
FilterOut(list, assetId) ==
    IF list = <<>> THEN <<>>
    ELSE IF Head(list).id # assetId
         THEN <<Head(list)>> \o FilterOut(Tail(list), assetId)
         ELSE FilterOut(Tail(list), assetId)

\* handleAssetDelete(assetId) that leaves the selection alone.
HandleAssetDeleteOnly(app, assetId) ==
    [app EXCEPT !.assets = FilterOut(@, assetId)]

\* handleAssetDelete(assetId)
HandleAssetDelete(app, assetId) ==
    LET app1 == [app EXCEPT !.assets = FilterOut(@, assetId)]
    IN  IF app.selectedAsset # <<>> /\ app.selectedAsset[1].id = assetId
        THEN [app1 EXCEPT !.selectedAsset = <<>>,
                          !.trace = Append(@, Ev("setSelectedAsset", "", 0, 0, "null"))]
        ELSE app1

(***************************************************************************)
(* utils: calculateHealthScore                                             *)
(***************************************************************************)
\* if (x) on a number: 0 is falsy, as is the undefined of an absent field.
TruthyNumber(x) == x # 0

\* What one pass of the forEach callback takes off the score.
Penalty(reading) ==
    (IF TruthyNumber(reading.temperature)
        /\ (reading.temperature < 15 \/ reading.temperature > 30)
     THEN 5 ELSE 0)
    + (IF TruthyNumber(reading.vibration) /\ reading.vibration > 1
       THEN 10 ELSE 0)
    + (IF TruthyNumber(reading.power_consumption) /\ reading.power_consumption > 25
       THEN 5 ELSE 0)
    + (IF reading.status = "warning" THEN 3
       ELSE IF reading.status = "error" THEN 15 ELSE 0)

\* Array.prototype.slice(0, end)
Slice(array, end) == SubSeq(array, 1, IF Len(array) < end THEN Len(array) ELSE end)

\* The score after the forEach over recent, from score on.
RECURSIVE Deduct(_, _)
Deduct(score, recent) ==
    IF recent = <<>> THEN score
    ELSE Deduct(score - Penalty(Head(recent)), Tail(recent))

Max(a, b) == IF a > b THEN a ELSE b
Min(a, b) == IF a < b THEN a ELSE b

\* calculateHealthScore(telemetryData)
calculateHealthScore(data) ==
    IF data.isNull \/ Len(data.readings) = 0
    THEN 0
    ELSE Max(0, Min(100, Deduct(100, Slice(data.readings, 10))))

(***************************************************************************)
(* History: the documented transition table (spec.md, section 4.1), folded *)
(* over the calls and signals of the run, and the close signals since the  *)
(* last open signal.                                                       *)
(***************************************************************************)
TableStep(tb, event) ==
    CASE event = "connect" ->
             IF tb.state \in {"Idle", "Closed", "Failed"}
             THEN [tb EXCEPT !.state = "Connecting"]
             ELSE tb
      [] event = "open" -> [state |-> "Open", attempts |-> 0]
      [] event = "close" ->
             IF tb.attempts < maxReconnectAttempts
             THEN [state |-> "Closed", attempts |-> tb.attempts + 1]
             ELSE [state |-> "Failed", attempts |-> tb.attempts]
      [] event = "disconnect" -> [tb EXCEPT !.state = "Idle"]
      [] OTHER -> tb

History(event) ==
    /\ table' = TableStep(table, event)
    /\ closes' = CASE event = "open" -> [inv |-> 0, vol |-> FALSE]
                   [] event = "close" -> [closes EXCEPT !.inv = @ + 1]
                   [] event = "vclose" -> [closes EXCEPT !.vol = TRUE]
                   [] OTHER -> closes
    /\ UNCHANGED <<clientVars, appVars, telemetryData>>

\* The sum of f over S.
RECURSIVE Sum(_, _)
Sum(f, S) ==
    IF S = {} THEN 0
    ELSE LET x == CHOOSE y \in S : TRUE IN f[x] + Sum(f, S \ {x})

\* The bag of f(t) for the timers t of bag b.
MapBag(f(_), b) ==
    LET image == {f(t) : t \in BagToSet(b)}
    IN  [u \in image |->
            Sum([t \in BagToSet(b) |-> IF f(t) = u THEN b[t] ELSE 0],
                BagToSet(b))]

\* History: disconnect() was called while these timers were pending.
MarkStale(s) ==
    LET F(t) == [t EXCEPT !.stale = TRUE]
    IN  [s EXCEPT !.timers = MapBag(F, @)]

\* History: the timer this task set was set by a close signal of kind how.
MarkOrigin(s, how) ==
    LET F(t) == IF t.origin = "" THEN [t EXCEPT !.origin = how] ELSE t
    IN  [s EXCEPT !.timers = MapBag(F, @)]

(***************************************************************************)
(* Tasks                                                                   *)
(***************************************************************************)
Registrations == [e \in Events |-> Len(listeners[e])]

\* A WebSocket can still be constructed within the bound.
Room(maxSockets) == Len(sockets) < maxSockets

\* No WebSocket is CONNECTING, OPEN or CLOSING.
Quiet == Live(sockets) = {}

\* new WebSocketService(), and the Dashboard not yet mounted.
InitService ==
    /\ ws = null
    /\ sockets = <<>>
    /\ reconnectAttempts = 0
    /\ timers = EmptyBag
    /\ listeners = [e \in Events |-> <<>>]
    /\ effect = 0
    /\ effectRuns = 0
    /\ trace = <<>>
    /\ closes = [inv |-> 0, vol |-> FALSE]
    /\ table = [state |-> "Idle", attempts |-> 0]

\* No item in localStorage and no request under way.
InitClient ==
    /\ localStorage = NoItems
    /\ requests = EmptyBag

\* useState([]) and useState(null) of App.
InitApp ==
    /\ assets = <<>>
    /\ selectedAsset = <<>>

Init ==
    /\ InitService
    /\ InitClient
    /\ InitApp
    /\ telemetryData = NullData

\* The application calls wsService.connect().
AppConnect ==
    /\ Commit(Connect(Do(Service, Ev("connect()", "", 0, 0, "app"))))
    /\ History("connect")
    /\ UNCHANGED <<effect, effectRuns>>

\* The application calls wsService.disconnect().
AppDisconnect ==
    /\ Commit(MarkStale(Disconnect(Do(Service, Ev("disconnect()", "", 0, 0, "")))))
    /\ History("disconnect")
    /\ UNCHANGED <<effect, effectRuns>>

\* The application calls wsService.send(data).
AppSend(data) ==
    /\ Commit(Send(Do(Service, Ev("send()", "", 0, 0, data)), data))
    /\ History("send")
    /\ UNCHANGED <<effect, effectRuns>>

\* The application calls wsService.on(event, callback).
AppOn(event, callback) ==
    /\ Commit(On(Do(Service, Ev("on()", event, 0, callback, "")), event, callback))
    /\ History("on")
    /\ UNCHANGED <<effect, effectRuns>>

\* The application calls wsService.off(event, callback).
AppOff(event, callback) ==
    /\ Commit(Off(Do(Service, Ev("off()", event, 0, callback, "")), event, callback))
    /\ History("off")
    /\ UNCHANGED <<effect, effectRuns>>

\* A timer set by attemptReconnect fires: its callback calls connect().
TimerFire(tm) ==
    /\ BagIn(tm, timers)
    /\ LET s == [Service EXCEPT !.timers = @ (-) SetToBag({tm})]
           how == IF tm.stale THEN "stale" ELSE "fresh"
       IN  Commit(Connect(Do(s, Ev("timer", tm.origin, tm.delay, 0, how))))
    /\ History("connect")
    /\ UNCHANGED <<effect, effectRuns>>

\* The application calls wsService.connect() and new WebSocket raises.
AppConnectThrows ==
    /\ Commit(ConnectThrows(Do(Service, Ev("connect()", "", 0, 0, "app"))))
    /\ History("throw")
    /\ UNCHANGED <<effect, effectRuns>>

\* A timer set by attemptReconnect fires and new WebSocket raises.
TimerFireThrows(tm) ==
    /\ BagIn(tm, timers)
    /\ LET s == [Service EXCEPT !.timers = @ (-) SetToBag({tm})]
           how == IF tm.stale THEN "stale" ELSE "fresh"
       IN  Commit(ConnectThrows(Do(s, Ev("timer", tm.origin, tm.delay, 0, how))))
    /\ History("throw")
    /\ UNCHANGED <<effect, effectRuns>>

\* The transport of socket id signals open.
SignalOpen(id) ==
    /\ sockets[id] = "CONNECTING"
    /\ LET s == [Service EXCEPT !.sockets[id] = "OPEN"]
       IN  Commit(OnOpen(Do(s, Ev("onopen", "", id, 0, ""))))
    /\ History("open")
    /\ UNCHANGED <<effect, effectRuns>>

\* The transport of socket id signals close: of its own accord (the server
\* or the network closed it: involuntary), or after WebSocket.close().
SignalClose(id) ==
    /\ sockets[id] # "CLOSED"
    /\ LET s == [Service EXCEPT !.sockets[id] = "CLOSED"]
           how == IF sockets[id] = "CLOSING" THEN "voluntary" ELSE "involuntary"
       IN  Commit(MarkOrigin(OnClose(Do(s, Ev("onclose", sockets[id], id, 0, how))),
                             how))
    /\ History(IF sockets[id] = "CLOSING" THEN "vclose" ELSE "close")
    /\ UNCHANGED <<effect, effectRuns>>

\* The transport of socket id signals an error (the close signal follows).
SignalError(id) ==
    /\ sockets[id] # "CLOSED"
    /\ Commit(OnError(Do(Service, Ev("onerror", "", id, 0, "")), "ErrorEvent"))
    /\ History("error")
    /\ UNCHANGED <<effect, effectRuns>>

\* The transport of socket id delivers a frame.
SignalMessage(id, raw) ==
    /\ sockets[id] = "OPEN"
    /\ Commit(OnMessage(Do(Service, Ev("onmessage", "", id, 0, raw)), raw))
    /\ History("message")
    /\ UNCHANGED <<effect, effectRuns>>

\* Dashboard: the effect runs, with a cleanup that passes off() the handler
\* of the new render instead of the one its own run registered.
EffectRunOtherHandler ==
    /\ LET n == effectRuns + 1
           s0 == Do(Service, Ev("effect", "", n, 0, ""))
           s1 == IF effect # 0
                 THEN Off(s0, "telemetry", HandlerOf(n))
                 ELSE s0
       IN  /\ Commit(On(Connect(s1), "telemetry", HandlerOf(n)))
           /\ effect' = n
           /\ effectRuns' = n
    /\ History("connect")

\* Dashboard: the effect runs (mount, or assets changed: the cleanup of the
\* previous run, then the effect of this render).
EffectRun ==
    /\ LET n == effectRuns + 1
           s0 == Do(Service, Ev("effect", "", n, 0, ""))
           s1 == IF effect # 0
                 THEN Off(s0, "telemetry", HandlerOf(effect))
                 ELSE s0
       IN  /\ Commit(On(Connect(s1), "telemetry", HandlerOf(n)))
           /\ effect' = n
           /\ effectRuns' = n
    /\ History("connect")

\* Dashboard: unmount runs the cleanup of the live effect.
Unmount ==
    /\ effect # 0
    /\ Commit(Off(Do(Service, Ev("cleanup", "", effect, 0, "")),
                  "telemetry", HandlerOf(effect)))
    /\ effect' = 0
    /\ History("cleanup")
    /\ UNCHANGED effectRuns

\* Something outside this code stores a token (a login).
StoreToken(token) ==
    /\ localStorage' = SetItem(localStorage, "auth_token", token)
    /\ trace' = <<Ev("setItem", "auth_token", 0, 0, token)>>
    /\ UNCHANGED <<requests, serviceVars, appVars, telemetryData>>

\* A method of apiService sends a request: the request interceptor runs.
SendRequest ==
    /\ LET config == RequestInterceptor(localStorage)
       IN  /\ requests' = requests (+) SetToBag({config})
           /\ trace' = <<Ev("request", "", 0, 0, config.Authorization)>>
    /\ UNCHANGED <<localStorage, serviceVars, appVars, telemetryData>>

\* The response to a request arrives: the response interceptor runs.
Response(config, status) ==
    /\ BagIn(config, requests)
    /\ LET r == ResponseInterceptor(localStorage, status)
       IN  /\ localStorage' = r.storage
           /\ trace' = <<Ev("response", r.settled, status, 0, config.Authorization)>>
                           \o r.log
    /\ requests' = requests (-) SetToBag({config})
    /\ UNCHANGED <<serviceVars, appVars, telemetryData>>

\* React commits the state a handler of App set.
Render(app) ==
    /\ assets' = app.assets
    /\ selectedAsset' = app.selectedAsset
    /\ trace' = app.trace
    /\ UNCHANGED <<serviceVars, clientVars, telemetryData>>

\* A page calls one of the handlers App passed to it.
AssetSelect(asset) ==
    Render(HandleAssetSelect(
               [App EXCEPT !.trace = <<Ev("handleAssetSelect", "", asset.id, 0, asset.name)>>],
               asset))
AssetUpdate(asset) ==
    Render(HandleAssetUpdate(
               [App EXCEPT !.trace = <<Ev("handleAssetUpdate", "", asset.id, 0, asset.name)>>],
               asset))
AssetCreate(asset) ==
    Render(HandleAssetCreate(
               [App EXCEPT !.trace = <<Ev("handleAssetCreate", "", asset.id, 0, asset.name)>>],
               asset))
AssetDelete(assetId) ==
    Render(HandleAssetDelete(
               [App EXCEPT !.trace = <<Ev("handleAssetDelete", "", assetId, 0, "")>>],
               assetId))

\* A component renders and calls calculateHealthScore(telemetryData).
CalculateHealthScore ==
    /\ trace' = <<Ev("calculateHealthScore", "", calculateHealthScore(telemetryData),
                     0, "")>>
    /\ UNCHANGED <<serviceVars, clientVars, appVars, telemetryData>>

\* Events the application subscribes to by hand in the two specifications.
AppEvents == {"connected", "error", "telemetry"}
ChainEvents == {"connected", "disconnected", "maxReconnectAttemptsReached"}

RegsLeft == Sum(Registrations, Events) < MaxRegs
Unregistered(event, callback) == IndexOf(listeners[event], callback) = 0

Next ==
    \/ Room(MaxSockets) /\ AppConnect
    \/ AppDisconnect
    \/ \E data \in Payloads : AppSend(data)
    \/ \E event \in AppEvents, callback \in AppCallbacks :
           RegsLeft /\ AppOn(event, callback)
    \/ \E event \in AppEvents, callback \in AppCallbacks : AppOff(event, callback)
    \/ \E tm \in BagToSet(timers) : Room(MaxSockets) /\ TimerFire(tm)
    \/ \E id \in 1..Len(sockets) : SignalOpen(id)
    \/ \E id \in 1..Len(sockets) : SignalClose(id)
    \/ \E id \in 1..Len(sockets) : SignalError(id)
    \/ \E id \in 1..Len(sockets), raw \in Frames : SignalMessage(id, raw)
    \/ Room(MaxSockets) /\ EffectRun
    \/ Unmount

Spec == Init /\ [][Next]_vars

\* The reconnection chain, long enough to exhaust the retries: transports
\* follow one another (one is constructed only once the one before it has
\* delivered its close signal), the application subscribes each callback at
\* most once per event, never disconnects and sends nothing.  Spec covers
\* overlapping transports, disconnect() and send().
NextChain ==
    \/ Room(ChainSockets) /\ Quiet /\ AppConnect
    \/ \E event \in ChainEvents, callback \in AppCallbacks :
           Unregistered(event, callback) /\ AppOn(event, callback)
    \/ \E event \in ChainEvents, callback \in AppCallbacks :
           ~Unregistered(event, callback) /\ AppOff(event, callback)
    \/ \E tm \in BagToSet(timers) : Room(ChainSockets) /\ Quiet /\ TimerFire(tm)
    \/ \E id \in 1..Len(sockets) : SignalOpen(id)
    \/ \E id \in 1..Len(sockets) : SignalClose(id)
    \/ \E id \in 1..Len(sockets) : SignalError(id)

SpecChain == Init /\ [][NextChain]_vars

\* The registry and the dispatch of frames: one transport, opened once; the
\* application subscribes and unsubscribes two callbacks, one of which raises
\* an exception, and the transport delivers frames of every shape.
SubsLeft == Sum(Registrations, Events) < MaxSubs

NextRegistry ==
    \/ sockets = <<>> /\ AppConnect
    \/ \E id \in 1..Len(sockets) : SignalOpen(id)
    \/ \E event \in RegistryEvents, callback \in RegistryCallbacks :
           SubsLeft /\ AppOn(event, callback)
    \/ \E event \in RegistryEvents, callback \in RegistryCallbacks :
           AppOff(event, callback)
    \/ \E id \in 1..Len(sockets), raw \in RegistryFrames : SignalMessage(id, raw)

SpecRegistry == Init /\ [][NextRegistry]_vars

\* The reconnection chain when new WebSocket can raise at any attempt.
NextEstablish ==
    \/ Room(ChainSockets) /\ Quiet /\ AppConnect
    \/ Quiet /\ AppConnectThrows
    \/ \E tm \in BagToSet(timers) : Room(ChainSockets) /\ Quiet /\ TimerFire(tm)
    \/ \E tm \in BagToSet(timers) : Quiet /\ TimerFireThrows(tm)
    \/ \E id \in 1..Len(sockets) : SignalOpen(id)
    \/ \E id \in 1..Len(sockets) : SignalClose(id)

SpecEstablish == Init /\ [][NextEstablish]_vars

\* Frames against the registry: one transport; the application subscribes
\* a plain callback and one written to run once, to 'message' and to the
\* local event 'connected'; the transport opens, delivers frames (one of
\* them typed 'connected') and closes.
NextInbound ==
    \/ sockets = <<>> /\ AppConnect
    \/ \E id \in 1..Len(sockets) : SignalOpen(id)
    \/ \E event \in InboundEvents, callback \in InboundCallbacks :
           SubsLeft /\ AppOn(event, callback)
    \/ \E event \in InboundEvents, callback \in InboundCallbacks :
           AppOff(event, callback)
    \/ \E id \in 1..Len(sockets), raw \in InboundFrames : SignalMessage(id, raw)

SpecInbound == Init /\ [][NextInbound]_vars

\* No transport other than this.ws is CONNECTING, OPEN or CLOSING.
OnlyCurrentLive == Live(sockets) \subseteq {ws}

\* Overlapping transports over a long run: connect() is called, by the
\* application or by a timer, while the current transport is still live, so
\* that two transports deliver their signals in any order; the application
\* disconnects at any time.
NextOverlap ==
    \/ Room(ChainSockets) /\ OnlyCurrentLive /\ AppConnect
    \/ AppDisconnect
    \/ \E tm \in BagToSet(timers) :
           Room(ChainSockets) /\ OnlyCurrentLive /\ TimerFire(tm)
    \/ \E id \in 1..Len(sockets) : SignalOpen(id)
    \/ \E id \in 1..Len(sockets) : SignalClose(id)
    \/ \E id \in 1..Len(sockets) : SignalError(id)

SpecOverlap == Init /\ [][NextOverlap]_vars

\* Past the exhaustion of the retries: transports follow one another, the
\* application calls connect() only when no transport is live and no retry
\* is pending (at the start and after the retries gave out), disconnects a
\* current transport at any time and subscribes to
\* maxReconnectAttemptsReached.
NextExhaust ==
    \/ Room(ExhaustSockets) /\ Quiet /\ timers = EmptyBag /\ AppConnect
    \/ ws # null /\ AppDisconnect
    \/ \E callback \in AppCallbacks :
           /\ Unregistered("maxReconnectAttemptsReached", callback)
           /\ AppOn("maxReconnectAttemptsReached", callback)
    \/ \E tm \in BagToSet(timers) : Room(ExhaustSockets) /\ Quiet /\ TimerFire(tm)
    \/ \E id \in 1..Len(sockets) : SignalOpen(id)
    \/ \E id \in 1..Len(sockets) : SignalClose(id)

SpecExhaust == Init /\ [][NextExhaust]_vars

\* The application subscribes, calls connect() once and does nothing more:
\* the transports and the timers do the rest.  Every live transport
\* eventually delivers its open or its close signal and every pending timer
\* eventually fires.
NextSingle ==
    \/ \E event \in ChainEvents, callback \in AppCallbacks :
           sockets = <<>> /\ Unregistered(event, callback) /\ AppOn(event, callback)
    \/ sockets = <<>> /\ AppConnect
    \/ \E tm \in BagToSet(timers) : Room(ChainSockets) /\ TimerFire(tm)
    \/ \E id \in 1..Len(sockets) : SignalOpen(id)
    \/ \E id \in 1..Len(sockets) : SignalClose(id)

TransportSignals == \E id \in 1..Len(sockets) : SignalOpen(id) \/ SignalClose(id)
TimersFire == \E tm \in BagToSet(timers) : Room(ChainSockets) /\ TimerFire(tm)

SpecSingle ==
    /\ Init
    /\ [][NextSingle]_vars
    /\ WF_vars(TransportSignals)
    /\ WF_vars(TimersFire)

\* The HTTP client: tokens are stored, requests are sent and answered in
\* any order, with any status.
NextClient ==
    \/ \E token \in Tokens : StoreToken(token)
    \/ BagCardinality(requests) < MaxRequests /\ SendRequest
    \/ \E config \in BagToSet(requests), status \in Statuses :
           Response(config, status)

SpecClient == Init /\ [][NextClient]_vars

\* App: the pages select, create, update and delete assets in any order;
\* nothing keeps two assets from having the same id.
NextAssets ==
    \/ \E asset \in Assets : AssetSelect(asset)
    \/ \E asset \in Assets : AssetUpdate(asset)
    \/ \E asset \in Assets : Len(assets) < MaxAssets /\ AssetCreate(asset)
    \/ \E assetId \in AssetIds : AssetDelete(assetId)

SpecAssets == Init /\ [][NextAssets]_vars

\* n times the reading r.
Repeat(r, n) == [i \in 1..n |-> r]

\* The arguments of calculateHealthScore: null, and the arrays made of a run
\* of one reading followed by a run of another, up to MaxReadings long.
HealthInputs ==
    {NullData} \cup
    {Array(Repeat(a, k) \o Repeat(b, m)) :
         <<a, b, k, m>> \in {t \in Readings \X Readings \X (0..MaxReadings)
                                       \X (0..MaxReadings) :
                                 t[3] + t[4] <= MaxReadings}}

InitHealth ==
    /\ InitService
    /\ InitClient
    /\ InitApp
    /\ telemetryData \in HealthInputs

NextHealth == CalculateHealthScore

SpecHealth == InitHealth /\ [][NextHealth]_vars

(***************************************************************************)
(* Reading the trace of the task that ran last.                            *)
(***************************************************************************)
\* The task that ran last was handler op.
Ran(op) == trace # <<>> /\ trace[1].op = op

\* The task that ran last was the close handler of a transport that closed of
\* its own accord (how = "involuntary") or after disconnect() ("voluntary").
RanClose(how) == Ran("onclose") /\ trace[1].data = how

\* Positions of the trace entries (op, name).
At(op, name) == {i \in DOMAIN trace : trace[i].op = op /\ trace[i].name = name}

\* Times callback was invoked for event by the task that ran last.
Calls(event, callback) ==
    Cardinality({i \in At("call", event) : trace[i].cb = callback})

\* Registrations of callback under event.
Registered(event, callback) ==
    Cardinality({i \in DOMAIN listeners[event] : listeners[event][i] = callback})

Callbacks ==
    RegistryCallbacks \cup OnceCallbacks \cup {HandlerOf(n) : n \in 1..MaxSockets}

\* The task that ran last emitted event once, to every registration of the
\* event (the registry as the task left it).
EmittedOnce(event) ==
    /\ Cardinality(At("emit", event)) = 1
    /\ \A c \in Callbacks : Calls(event, c) = Registered(event, c)

(***************************************************************************)
(* C1.  At most one transport is open or pending at any time: connect()    *)
(* while a transport is CONNECTING or OPEN creates no second one.          *)
(***************************************************************************)
C1_AtMostOneTransport == Cardinality(Active(sockets)) <= 1

(***************************************************************************)
(* C2.  The close signal of a transport closed by disconnect() does not    *)
(* run the reconnection policy: it sets no timer and leaves the retry      *)
(* counter alone.                                                          *)
(***************************************************************************)
C2_DisconnectSuppressesReconnect ==
    [][RanClose("voluntary")' =>
          /\ timers' = timers
          /\ reconnectAttempts' = reconnectAttempts]_vars

(***************************************************************************)
(* C3.  A timer set by an involuntary close and still pending when         *)
(* disconnect() is called never fires connect().                           *)
(***************************************************************************)
C3_DisconnectCancelsTimer ==
    ~(Ran("timer") /\ trace[1].name = "involuntary" /\ trace[1].data = "stale")

(***************************************************************************)
(* C4.  Of consecutive involuntary closes with no open among them, each of *)
(* the first 5 sets exactly one timer and emits no                         *)
(* maxReconnectAttemptsReached; the 6th sets none and emits it exactly     *)
(* once.  (closes.inv counts the closes before the step.)                  *)
(***************************************************************************)
C4_RetryCeiling ==
    [][(RanClose("involuntary")' /\ ~closes.vol /\ closes.inv <= 5) =>
          IF closes.inv < 5
          THEN /\ Cardinality(At("setTimeout", ""))' = 1
               /\ BagCardinality(timers') = BagCardinality(timers) + 1
               /\ At("emit", "maxReconnectAttemptsReached")' = {}
          ELSE /\ At("setTimeout", "")' = {}
               /\ timers' = timers
               /\ EmittedOnce("maxReconnectAttemptsReached")']_vars

\* The 6th consecutive involuntary close has emitted the event to a subscriber.
C4_Witness ==
    /\ RanClose("involuntary")
    /\ closes = [inv |-> 6, vol |-> FALSE]
    /\ \E c \in AppCallbacks : Calls("maxReconnectAttemptsReached", c) = 1

(***************************************************************************)
(* C5.  The k-th consecutive reconnect attempt (k = 1..5) is delayed by    *)
(* 1000 * k ms: the counter is incremented first and the delay computed    *)
(* from the incremented value.                                             *)
(***************************************************************************)
C5_LinearBackoff ==
    [][(RanClose("involuntary")' /\ ~closes.vol /\ closes.inv < 5) =>
          LET k == closes.inv + 1
          IN  /\ reconnectAttempts' = k
              /\ \E i \in At("setTimeout", "")' : trace'[i].num = 1000 * k
              /\ timers' = timers (+) SetToBag({Timer(1000 * k, "involuntary", FALSE)})]_vars

\* The 5th consecutive attempt has been scheduled, 5000 ms ahead.
C5_Witness ==
    /\ RanClose("involuntary")
    /\ closes = [inv |-> 5, vol |-> FALSE]
    /\ \E i \in At("setTimeout", "") : trace[i].num = 5000

(***************************************************************************)
(* C6.  Every open signal resets the retry counter to 0 and dispatches     *)
(* connected exactly once to each of its subscribers; so the first         *)
(* involuntary close after an open sets its timer 1000 ms ahead.           *)
(***************************************************************************)
C6_OpenResetsBackoff ==
    [][/\ Ran("onopen")' =>
             /\ reconnectAttempts' = 0
             /\ EmittedOnce("connected")'
       /\ (/\ RanClose("involuntary")'
           /\ trace'[1].name = "OPEN"
           /\ closes = [inv |-> 0, vol |-> FALSE]) =>
             /\ reconnectAttempts' = 1
             /\ \E i \in At("setTimeout", "")' : trace'[i].num = 1000]_vars

\* An open signal after two or more failed attempts has reset the counter and
\* reached a subscriber.
C6_Witness ==
    /\ Ran("onopen")
    /\ \E i \in At("reconnectAttempts = 0", "") : trace[i].num >= 2
    /\ \E c \in AppCallbacks : Calls("connected", c) = 1

(***************************************************************************)
(* C7.  Once the ceiling is reached without an open (the 6th consecutive   *)
(* involuntary close), nothing automatic is left: no timer is pending.     *)
(***************************************************************************)
C7_FailedIsTerminal ==
    (RanClose("involuntary") /\ ~closes.vol /\ closes.inv >= 6) =>
        timers = EmptyBag

\* Positions of what the reconnection policy did in the task that ran last.
PolicyEntries ==
    At("setTimeout", "") \cup At("emit", "maxReconnectAttemptsReached")
        \cup At("call", "maxReconnectAttemptsReached")

(***************************************************************************)
(* C8.  Every involuntary close signal dispatches disconnected exactly     *)
(* once and then runs the reconnection policy: the dispatch precedes the   *)
(* timer being set and any maxReconnectAttemptsReached dispatch.           *)
(***************************************************************************)
C8_DisconnectedThenPolicy ==
    [][RanClose("involuntary")' =>
          /\ EmittedOnce("disconnected")'
          /\ Cardinality(At("setTimeout", "")')
                 + Cardinality(At("emit", "maxReconnectAttemptsReached")') = 1
          /\ \A i \in (At("emit", "disconnected") \cup At("call", "disconnected"))' :
                 \A j \in PolicyEntries' : i < j]_vars

\* A close signal has reached a disconnected subscriber and then a
\* maxReconnectAttemptsReached subscriber.
C8_Witness ==
    /\ RanClose("involuntary")
    /\ \E c \in AppCallbacks : Calls("disconnected", c) = 1
    /\ \E c \in AppCallbacks : Calls("maxReconnectAttemptsReached", c) = 1

\* The state of the client as an observer reads it off its fields.
ObservableState ==
    IF ws = null
    THEN IF timers = EmptyBag THEN "Idle" ELSE "Closed"
    ELSE CASE sockets[ws] = "CONNECTING" -> "Connecting"
           [] sockets[ws] = "OPEN" -> "Open"
           [] OTHER ->
                  IF timers = EmptyBag /\ reconnectAttempts >= maxReconnectAttempts
                  THEN "Failed"
                  ELSE "Closed"

(***************************************************************************)
(* C9.  The state of the client, read off the transport reference, its     *)
(* readiness, the retry counter and the pending timers, is the state the   *)
(* documented transition table reaches on the same calls and signals.      *)
(***************************************************************************)
C9_FollowsTable == ObservableState = table.state

(***************************************************************************)
(* C10.  send() transmits, on the current transport and the payload of     *)
(* this call, only when that transport is OPEN; otherwise it transmits     *)
(* nothing, throws nothing and keeps nothing, and no other task transmits. *)
(***************************************************************************)
C10_SendOnlyWhenOpen ==
    [][/\ Ran("send()")' =>
             IF ws # null /\ sockets[ws] = "OPEN"
             THEN /\ At("transmit", "")' \cup At("throw", "")' # {}
                  /\ \A i \in At("transmit", "")' :
                         /\ trace'[i].num = ws
                         /\ trace'[i].data = JSONStringify(trace'[1].data)
             ELSE /\ At("transmit", "")' \cup At("throw", "")' = {}
                  /\ UNCHANGED <<ws, sockets, reconnectAttempts, timers, listeners>>
       /\ At("transmit", "")' # {} => Ran("send()")']_vars

\* send() was refused while the transport was still connecting.
C10_Witness ==
    /\ Ran("send()")
    /\ ws # null
    /\ sockets[ws] = "CONNECTING"
    /\ At("console.warn", "") # {}

(***************************************************************************)
(* Reading the trace of a message task.                                    *)
(***************************************************************************)
\* The frame the message task that ran last was given, decoded.
Delivered == JSONParse(trace[1].data)

\* The dispatches of the task that ran last, in order: event name and
\* argument.
Dispatches ==
    LET IsEmit(e) == e.op = "emit"
        emits == SelectSeq(trace, IsEmit)
    IN  [i \in DOMAIN emits |-> <<emits[i].name, emits[i].data>>]

\* The dispatches of a frame by the documented rule, the second one made
\* when typed holds.
DispatchesWhen(typed) ==
    IF typed
    THEN <<<<"message", Delivered.value>>, <<Delivered.type, Delivered.data>>>>
    ELSE <<<<"message", Delivered.value>>>>

\* Every dispatch of the task invoked each subscriber of its event as many
\* times as it is registered, with the argument of the dispatch.
SubscribersInvoked ==
    \A i \in DOMAIN trace :
        trace[i].op = "call" =>
            \E j \in 1..(i - 1) :
                /\ trace[j].op = "emit"
                /\ trace[j].name = trace[i].name
                /\ trace[j].data = trace[i].data
                /\ \A k \in (j + 1)..(i - 1) : trace[k].op # "emit"

(***************************************************************************)
(* C11 as written.  A frame that parses is dispatched once as 'message'    *)
(* with the decoded payload and, if the payload has a type field, once     *)
(* more under that type with the data field, in that order; a payload with *)
(* no type field is dispatched as 'message' only.                          *)
(***************************************************************************)
C11_TypeFieldDispatched ==
    Ran("onmessage") /\ Delivered.ok =>
        Dispatches = DispatchesWhen(Delivered.hasType)

(***************************************************************************)
(* C11.  A frame that parses is dispatched once as 'message' with the      *)
(* decoded payload and, if the type field of the payload is truthy (not    *)
(* absent and not the empty string), once more under that type with the    *)
(* data field, in that order; otherwise it is dispatched as 'message' only.*)
(* Each dispatch invokes its subscribers with its own argument.            *)
(***************************************************************************)
C11_TruthyTypeDispatched ==
    Ran("onmessage") /\ Delivered.ok =>
        /\ Dispatches = DispatchesWhen(Truthy(Delivered.type))
        /\ SubscribersInvoked

\* A frame of type telemetry reached a subscriber of 'message' with the
\* payload and a subscriber of 'telemetry' with the data field.
C11_Witness ==
    /\ Ran("onmessage")
    /\ Delivered.type = "telemetry"
    /\ \E i, j \in DOMAIN trace :
           /\ i < j
           /\ trace[i] = Ev("call", "message", 0, 1, Delivered.value)
           /\ trace[j] = Ev("call", "telemetry", 0, 1, Delivered.data)

\* The trace entries of the given kind, whatever their event.
Entries(op) == {i \in DOMAIN trace : trace[i].op = op}

(***************************************************************************)
(* C12.  A frame that fails to parse is dispatched to nobody, under no     *)
(* event, and the task that receives it leaves the transport reference,    *)
(* the transports, the retry counter, the pending timers and the registry  *)
(* as they were.                                                           *)
(***************************************************************************)
C12_MalformedDropped ==
    [][Ran("onmessage")' /\ ~Delivered'.ok =>
           /\ Entries("emit")' = {}
           /\ Entries("call")' = {}
           /\ UNCHANGED <<ws, sockets, reconnectAttempts, timers, listeners>>]_vars

\* A malformed frame arrived while 'message' had a subscriber.
C12_Witness ==
    /\ Ran("onmessage")
    /\ ~Delivered.ok
    /\ listeners["message"] # <<>>
    /\ sockets[ws] = "OPEN"
    /\ Entries("console.error") # {}

(***************************************************************************)
(* C13.  The error signal of a transport dispatches 'error' once, with the *)
(* error it was given, to every subscriber of 'error', and nothing else:   *)
(* it sets no timer and leaves the transport reference, the transports,    *)
(* the retry counter, the pending timers and the registry as they were.    *)
(***************************************************************************)
C13_ErrorOnlyDispatches ==
    [][Ran("onerror")' =>
           /\ Dispatches' = <<<<"error", "ErrorEvent">>>>
           /\ SubscribersInvoked'
           /\ \A callback \in Callbacks :
                  Calls("error", callback)' = Registered("error", callback)
           /\ Entries("setTimeout")' = {}
           /\ UNCHANGED <<ws, sockets, reconnectAttempts, timers, listeners>>]_vars

\* The error signal of a transport that had not opened reached a subscriber.
C13_Witness ==
    /\ Ran("onerror")
    /\ sockets[trace[1].num] = "CONNECTING"
    /\ Calls("error", 1) = 1

\* The delays of the pending timers, without their history.
Delays(b) ==
    LET DelayOf(t) == t.delay
    IN  MapBag(DelayOf, b)

(***************************************************************************)
(* C14.  disconnect() raises nothing in any state; called with no          *)
(* transport it closes nothing and leaves every field of the service as it *)
(* was; and in the state it leaves, a second disconnect() changes nothing. *)
(***************************************************************************)
C14_DisconnectIdempotent ==
    [][Ran("disconnect()")' =>
           /\ Entries("throw")' = {}
           /\ ws = null =>
                  /\ Entries("close")' = {}
                  /\ Delays(timers)' = Delays(timers)
                  /\ UNCHANGED <<ws, sockets, reconnectAttempts, listeners>>
           /\ (Disconnect(Service) = Service)']_vars

\* disconnect() was called with no transport present while the transport an
\* earlier disconnect() closed was still closing.
C14_Witness ==
    /\ Ran("disconnect()")
    /\ Len(trace) = 1
    /\ ws = null
    /\ \E id \in DOMAIN sockets : sockets[id] = "CLOSING"

\* The callbacks the dispatch at trace entry j invoked, in order: the call
\* entries between j and the next dispatch.
Invoked(j) ==
    LET later == {k \in Entries("emit") : k > j}
        end == IF later = {} THEN Len(trace) + 1
               ELSE CHOOSE k \in later : \A m \in later : k <= m
        IsCall(e) == e.op = "call"
        calls == SelectSeq(SubSeq(trace, j + 1, end - 1), IsCall)
    IN  [i \in DOMAIN calls |-> calls[i].cb]

\* Every dispatch of the task that ran last invoked the callbacks
\* registered under its event, all of them and in the order of the registry.
DispatchedToAll ==
    \A j \in Entries("emit") : Invoked(j) = Subscribers(Service, trace[j].name)

(***************************************************************************)
(* C15.  A callback that raises an exception stops nothing: no exception   *)
(* leaves emit, every dispatch still invokes every callback registered     *)
(* under its event, the exception is logged, a message handler goes on to  *)
(* its second dispatch, and the transport reference, the transports, the   *)
(* retry counter, the timers and the registry are as they were.            *)
(***************************************************************************)
C15_CallbackFailureIsolated ==
    [][Ran("onmessage")' =>
           /\ Entries("throw")' = {}
           /\ DispatchedToAll'
           /\ \A i \in Entries("call")' :
                  Throws(trace'[i].cb) =>
                      /\ i < Len(trace')
                      /\ trace'[i + 1].op = "console.error"
                      /\ trace'[i + 1].cb = trace'[i].cb
           /\ Delivered'.ok /\ ~Delivered'.isNull /\ Truthy(Delivered'.type) =>
                  \E j \in Entries("emit")' :
                      /\ j > 2
                      /\ trace'[j].name = Delivered'.type
                      /\ trace'[j].data = Delivered'.data
           /\ UNCHANGED <<ws, sockets, reconnectAttempts, timers, listeners>>]_vars

\* A callback of 'message' raised an exception; the callback registered
\* after it was invoked all the same, and so was a subscriber of the type.
C15_Witness ==
    /\ Ran("onmessage")
    /\ Delivered.type = "telemetry"
    /\ \E i, j, k \in Entries("call") :
           /\ i < j /\ j < k
           /\ trace[i].name = "message" /\ Throws(trace[i].cb)
           /\ trace[j].name = "message" /\ ~Throws(trace[j].cb)
           /\ trace[k].name = "telemetry"

\* seq without its entry at index k.
Without(seq, k) == SubSeq(seq, 1, k - 1) \o SubSeq(seq, k + 1, Len(seq))

\* The number of entries of seq that are x.
Occurrences(seq, x) == Cardinality({i \in DOMAIN seq : seq[i] = x})

\* seq without the earliest of its entries that are x.
WithoutEarliest(seq, x) ==
    IF Occurrences(seq, x) = 0 THEN seq
    ELSE LET first == CHOOSE i \in DOMAIN seq :
                          seq[i] = x /\ Occurrences(SubSeq(seq, 1, i), x) = 1
         IN  Without(seq, first)

(***************************************************************************)
(* C16.  Callbacks are invoked in the order of their registration: on()    *)
(* puts the callback after every callback already registered under the     *)
(* event and touches no other event, off() removes at most one entry and   *)
(* keeps the order of the others, and every dispatch invokes the callbacks *)
(* of its event in the order of the registry.                              *)
(***************************************************************************)
C16_RegistrationOrder ==
    [][/\ Ran("on()")' =>
              listeners' = [listeners EXCEPT ![trace'[1].name] =
                                                 @ \o <<trace'[1].cb>>]
       /\ Ran("off()")' =>
              \/ listeners' = listeners
              \/ \E k \in DOMAIN listeners[trace'[1].name] :
                     listeners' = [listeners EXCEPT ![trace'[1].name] =
                                                        Without(@, k)]
       /\ DispatchedToAll']_vars

\* A dispatch invoked the raising callback, then the other one, then the
\* raising one again: the order of three registrations.
C16_Witness ==
    /\ Ran("onmessage")
    /\ \E j \in Entries("emit") : Invoked(j) = <<2, 1, 2>>

(***************************************************************************)
(* C17.  The registry does not deduplicate: on() adds one registration of  *)
(* the callback whether or not it is registered already, a dispatch        *)
(* invokes a callback once per registration, and off() removes the         *)
(* earliest registration of the callback under the event and nothing else. *)
(***************************************************************************)
C17_NoDeduplication ==
    [][/\ \A event \in Events, callback \in Callbacks :
              Ran("on()")' /\ trace'[1].name = event /\ trace'[1].cb = callback =>
                  Registered(event, callback)' = Registered(event, callback) + 1
       /\ Ran("off()")' =>
              listeners' = [listeners EXCEPT ![trace'[1].name] =
                                                 WithoutEarliest(@, trace'[1].cb)]
       /\ \A j \in Entries("emit")', callback \in Callbacks :
              (Occurrences(Invoked(j), callback) =
                   Occurrences(Subscribers(Service, trace[j].name), callback))']_vars

\* off() took the earlier of two registrations of a callback and left the
\* later one behind the callback registered between them.
C17_Witness ==
    /\ Ran("off()")
    /\ trace[1].cb = 1
    /\ listeners[trace[1].name] = <<2, 1>>

\* The callback invocations of the task that ran last for event and callback.
CallsOf(event, callback) == {i \in At("call", event) : trace[i].cb = callback}

\* on() adds one registration of its callback under its event and off()
\* takes one away, if there is one.
OnOffCancel ==
    \A event \in Events, callback \in Callbacks :
        trace'[1].name = event /\ trace'[1].cb = callback =>
            /\ Ran("on()")' =>
                   Registered(event, callback)' = Registered(event, callback) + 1
            /\ Ran("off()")' =>
                   IF Registered(event, callback) = 0
                   THEN Registered(event, callback)' = 0
                   ELSE Registered(event, callback)' = Registered(event, callback) - 1

\* The frame of the task that ran last invoked each callback once per
\* registration under the type of the frame (not at all when it has none),
\* every time with the data field of the frame.
InvokedWithData ==
    \A callback \in Callbacks :
        /\ Cardinality(CallsOf(Delivered.type, callback)) =
               Occurrences(Subscribers(Service, Delivered.type), callback)
        /\ \A i \in CallsOf(Delivered.type, callback) :
               trace[i].data = Delivered.data

(***************************************************************************)
(* C18 as written.  After on(x, cb), a frame of type x invokes cb once,    *)
(* with the data field of the frame; after on(x, cb) and then off(x, cb),  *)
(* not at all.                                                             *)
(***************************************************************************)
C18_OnceWithData ==
    [][/\ OnOffCancel
       /\ (Ran("onmessage") /\ Delivered.ok /\ Delivered.hasType =>
               InvokedWithData)']_vars

(***************************************************************************)
(* C18.  After on(x, cb), a frame whose type x is not empty and is not     *)
(* 'message' invokes cb once, with the data field of the frame; after      *)
(* on(x, cb) and then off(x, cb), not at all.  A frame of type 'message'   *)
(* invokes a subscriber of 'message' twice: with the payload, then with    *)
(* the data field.                                                         *)
(***************************************************************************)
C18_OnceWithDataUnlessMessage ==
    [][/\ OnOffCancel
       /\ (/\ Ran("onmessage") /\ Delivered.ok /\ Truthy(Delivered.type) =>
                  IF Delivered.type # "message"
                  THEN InvokedWithData
                  ELSE \A callback \in Callbacks :
                           Cardinality(CallsOf("message", callback)) =
                               2 * Registered("message", callback))']_vars

\* A frame of type telemetry invoked the one registration of a callback
\* under 'telemetry' once, with the data field.
C18_Witness ==
    /\ Ran("onmessage")
    /\ Delivered.type = "telemetry"
    /\ Registered("telemetry", 1) = 1
    /\ \E i \in DOMAIN trace :
           /\ CallsOf("telemetry", 1) = {i}
           /\ trace[i].data = "t1"

\* The tasks that call on() or off(): the two calls themselves and the
\* effect of the Dashboard and its cleanup.
RegistryTasks == {"on()", "off()", "effect", "cleanup"}

(***************************************************************************)
(* C19.  Only on() and off() change the registry: connect(), disconnect(), *)
(* send(), the signals of a transport and the reconnect timers leave it as *)
(* it was, and every dispatch, whichever transport it comes from, invokes  *)
(* the callbacks registered at that time.                                  *)
(***************************************************************************)
C19_RegistryOnlyByOnOff ==
    [][/\ listeners' # listeners => trace'[1].op \in RegistryTasks
       /\ DispatchedToAll']_vars

\* The handler the Dashboard registered when it created the first transport
\* received a frame from the transport a reconnect timer put in its place.
C19_Witness ==
    /\ Ran("onmessage")
    /\ trace[1].num = Len(sockets)
    /\ Len(sockets) > 1
    /\ sockets[1] = "CLOSED"
    /\ timers = EmptyBag
    /\ effectRuns = 1
    /\ Calls("telemetry", HandlerOf(1)) = 1

\* new WebSocket raised in the task that ran last and connect() caught it.
ConstructionFailed ==
    \E i \in Entries("console.error") :
        trace[i].data = "Failed to create WebSocket connection:"

(***************************************************************************)
(* C20.  When new WebSocket raises inside connect(), connect() raises      *)
(* nothing and the reconnection policy runs for the failed attempt: the    *)
(* task sets a retry timer or, with no attempt left, dispatches            *)
(* maxReconnectAttemptsReached.                                            *)
(***************************************************************************)
C20_FailedAttemptRunsPolicy ==
    ConstructionFailed =>
        /\ Entries("throw") = {}
        /\ Cardinality(At("setTimeout", ""))
               + Cardinality(At("emit", "maxReconnectAttemptsReached")) = 1

(***************************************************************************)
(* C22.  The 'message' dispatch of a frame invokes every callback that is  *)
(* registered under 'message' when the frame arrives, once per             *)
(* registration and in order, whatever the callbacks do to the registry    *)
(* while they run.                                                         *)
(***************************************************************************)
C22_NoneSkipped ==
    [][Ran("onmessage")' /\ Delivered'.ok =>
           Invoked(2)' = Subscribers(Service, "message")]_vars

\* The local events: the names the service emits on a signal of the
\* transport or when the retries are exhausted.
LocalEvents == SyntheticEvents \ {"message"}

(***************************************************************************)
(* C23.  A task that handles an inbound frame invokes no subscriber of the *)
(* local events connected, disconnected, error and                         *)
(* maxReconnectAttemptsReached, whatever the frame holds.                  *)
(***************************************************************************)
C23_FramesNeverLocalEvents ==
    Ran("onmessage") =>
        \A i \in Entries("call") : trace[i].name \notin LocalEvents

(***************************************************************************)
(* C24.  The retry counter is never below 0 and never above                *)
(* maxReconnectAttempts, whichever transports deliver their close signals  *)
(* and in whichever order.                                                 *)
(***************************************************************************)
C24_CounterInRange ==
    /\ reconnectAttempts >= 0
    /\ reconnectAttempts <= maxReconnectAttempts

\* With the counter at its ceiling, a transport delivered its close signal
\* after the transport constructed after it had delivered its own: the
\* counter stayed and maxReconnectAttemptsReached went out.
C24_Witness ==
    /\ Ran("onclose")
    /\ reconnectAttempts = maxReconnectAttempts
    /\ At("emit", "maxReconnectAttemptsReached") # {}
    /\ trace[1].num < Len(sockets)
    /\ sockets[Len(sockets)] = "CLOSED"

(***************************************************************************)
(* C25.  At most one reconnect timer is pending at any time.               *)
(***************************************************************************)
C25_OneTimerPending == BagCardinality(timers) <= 1

(***************************************************************************)
(* C26.  Only the open signal of a transport lowers the retry counter;     *)
(* connect() and disconnect() leave it as it is; so a transport that       *)
(* closes of its own accord while the counter is at its ceiling sets no    *)
(* timer, leaves the counter there and dispatches                          *)
(* maxReconnectAttemptsReached once, however the transport came about.     *)
(***************************************************************************)
C26_OnlyOpenResets ==
    [][/\ reconnectAttempts' < reconnectAttempts => Ran("onopen")'
       /\ Ran("connect()")' \/ Ran("disconnect()")' =>
              reconnectAttempts' = reconnectAttempts
       /\ RanClose("involuntary")' /\ reconnectAttempts = maxReconnectAttempts =>
              /\ Entries("setTimeout")' = {}
              /\ EmittedOnce("maxReconnectAttemptsReached")'
              /\ reconnectAttempts' = maxReconnectAttempts]_vars

\* The seventh close in a row without an open: the retries gave out at the
\* sixth, the application called connect() (no timer was left to do it) and
\* that transport closed too; maxReconnectAttemptsReached went out again.
C26_Witness ==
    /\ RanClose("involuntary")
    /\ closes.inv = maxReconnectAttempts + 2
    /\ ~closes.vol
    /\ timers = EmptyBag
    /\ Entries("setTimeout") = {}
    /\ Calls("maxReconnectAttemptsReached", 1) = 1

(***************************************************************************)
(* C27.  After the one connect(), the client eventually receives an open   *)
(* signal or dispatches maxReconnectAttemptsReached: it does not retry for *)
(* ever.                                                                   *)
(***************************************************************************)
C27_OpenOrGiveUp ==
    \/ [](sockets = <<>>)
    \/ <>(Ran("onopen") \/ At("emit", "maxReconnectAttemptsReached") # {})

\* No transport ever opened: the sixth close gave up.
C27_Witness ==
    /\ RanClose("involuntary")
    /\ closes.inv = maxReconnectAttempts + 1
    /\ table.state # "Open"
    /\ At("emit", "maxReconnectAttemptsReached") # {}
    /\ timers = EmptyBag

\* The registrations under 'telemetry' that are handlers of the Dashboard
\* (closures handleRealtimeUpdate), in order.
DashboardHandlers ==
    LET IsHandler(c) == \E n \in 1..effectRuns : c = HandlerOf(n)
    IN  SelectSeq(listeners["telemetry"], IsHandler)

(***************************************************************************)
(* C28.  While the Dashboard is mounted exactly one of its handlers is     *)
(* registered under 'telemetry', the one its live effect run registered;   *)
(* after unmount none is.                                                  *)
(***************************************************************************)
C28_OneDashboardHandler ==
    DashboardHandlers = IF effect = 0 THEN <<>> ELSE <<HandlerOf(effect)>>

\* Mount, a change of assets, unmount: the cleanup of the second run left no
\* handler of the Dashboard behind.
C28_Witness ==
    /\ Ran("cleanup")
    /\ effectRuns > 1
    /\ effect = 0
    /\ trace[1].num = effectRuns

\* The token cached under 'auth_token': <<>> when there is none.
CachedToken == GetItem(localStorage, "auth_token")

(***************************************************************************)
(* C21.  A request carries `Bearer <token>` exactly when a token is cached *)
(* as it is sent, and no Authorization header otherwise; a response with   *)
(* status 401 removes the cached token and any other response leaves       *)
(* localStorage as it was; every response whose status is not 2xx is       *)
(* rejected to the caller; and a token comes to be cached only by being    *)
(* stored, so that after a 401 requests go out without the header until    *)
(* then.                                                                   *)
(***************************************************************************)
C21_TokenClearedOn401 ==
    [][/\ Ran("request")' =>
              trace'[1].data = IF CachedToken = <<>> THEN "undefined"
                               ELSE Bearer(CachedToken[1])
       /\ Ran("response")' =>
              /\ trace'[1].num = 401 => CachedToken' = <<>>
              /\ trace'[1].num # 401 => localStorage' = localStorage
              /\ ~Fulfilled(trace'[1].num) => trace'[1].name = "rejected"
       /\ CachedToken' # <<>> /\ CachedToken' # CachedToken => Ran("setItem")']_vars

\* A 401 removed the cached token while another request, sent with it, was
\* still under way.
C21_Witness ==
    /\ Ran("response")
    /\ trace[1].num = 401
    /\ trace[1].name = "rejected"
    /\ Entries("removeItem") # {}
    /\ CachedToken = <<>>
    /\ \E config \in BagToSet(requests) : config.Authorization = Bearer("t1")

\* The asset a handler of App was given, read off the header of its task.
Given == [id |-> trace[1].num, name |-> trace[1].data]

\* The selection is an asset with this id.
Selected(assetId) == selectedAsset # <<>> /\ selectedAsset[1].id = assetId

(***************************************************************************)
(* C29.  handleAssetDelete removes the assets with the id it is given, all *)
(* of them and no other, keeping the order of the rest, and sets the       *)
(* selection to null when the selected asset has that id; handleAssetUpdate*)
(* puts the asset it is given in the place of every asset with its id,     *)
(* length and order of the list unchanged, and makes it the selection when *)
(* the selected asset has its id; handleAssetCreate appends the asset it   *)
(* is given and leaves the selection alone.  A selection with another id   *)
(* is never changed by the three.                                          *)
(***************************************************************************)
C29_AssetHandlers ==
    [][/\ Ran("handleAssetDelete")' =>
              /\ \A i \in DOMAIN assets' : assets'[i].id # Given'.id
              /\ \E keep \in SUBSET DOMAIN assets :
                     /\ keep = {i \in DOMAIN assets : assets[i].id # Given'.id}
                     /\ Len(assets') = Cardinality(keep)
                     /\ \A i \in keep :
                            assets'[Cardinality({j \in keep : j <= i})] = assets[i]
              /\ selectedAsset' = IF Selected(Given'.id) THEN <<>> ELSE selectedAsset
       /\ Ran("handleAssetUpdate")' =>
              /\ Len(assets') = Len(assets)
              /\ \A i \in DOMAIN assets :
                     assets'[i] = IF assets[i].id = Given'.id THEN Given' ELSE assets[i]
              /\ selectedAsset' = IF Selected(Given'.id) THEN <<Given'>>
                                  ELSE selectedAsset
       /\ Ran("handleAssetCreate")' =>
              /\ assets' = assets \o <<Given'>>
              /\ selectedAsset' = selectedAsset]_vars

\* The selected asset was deleted: the selection is null and the list still
\* holds an asset, of another id.
C29_Witness ==
    /\ Ran("handleAssetDelete")
    /\ Entries("setSelectedAsset") # {}
    /\ selectedAsset = <<>>
    /\ assets # <<>>
    /\ \A i \in DOMAIN assets : assets[i].id # trace[1].num

\* What a reading costs by the documented rule.
ClaimedPenalty(reading) ==
    (IF reading.temperature < 15 \/ reading.temperature > 30 THEN 5 ELSE 0)
    + (IF reading.vibration > 1 THEN 10 ELSE 0)
    + (IF reading.power_consumption > 25 THEN 5 ELSE 0)
    + (IF reading.status = "warning" THEN 3 ELSE 0)
    + (IF reading.status = "error" THEN 15 ELSE 0)

\* The documented score of an array: 100 less what its first ten readings
\* cost, and not below 0.
ClaimedScore(readings) ==
    LET first == {i \in DOMAIN readings : i <= 10}
        cost == Sum([i \in first |-> ClaimedPenalty(readings[i])], first)
    IN  IF 100 - cost < 0 THEN 0 ELSE 100 - cost

(***************************************************************************)
(* C30.  calculateHealthScore returns 0 for null and for the empty array,  *)
(* and for any other array 100 less the documented penalties of its first  *)
(* ten readings, not below 0 and not above 100; the readings after the     *)
(* tenth do not count.                                                     *)
(***************************************************************************)
C30_ScoreIsClaimed ==
    Ran("calculateHealthScore") =>
        /\ trace[1].num >= 0
        /\ trace[1].num <= 100
        /\ trace[1].num = IF telemetryData.isNull \/ telemetryData.readings = <<>>
                          THEN 0
                          ELSE ClaimedScore(telemetryData.readings)

====
